---- MODULE Spec2Model ----
(***************************************************************************)
(* WDSPWrapper.c: the C glue between a caller's float buffers and the WDSP *)
(* EMNR (spectral) and ANR (adaptive) engines.  The engines themselves     *)
(* (create_emnr/xemnr/destroy_emnr, create_anr/xanr/destroy_anr) are       *)
(* external: an engine is modelled as an unknown but fixed deterministic    *)
(* machine (one of NumOutcomes varieties) that may fail to construct and   *)
(* that, given its internal state and the block in the scratch buffer,     *)
(* overwrites the whole buffer in place and moves to its next state.       *)
(*                                                                         *)
(* Numbers.  A double is modelled as an integer count of one double-unit.  *)
(* A float is modelled as an integer count of float-units, one float-unit  *)
(* being FloatStep double-units: every float is exactly representable as a *)
(* double, not every double as a float.                                    *)
(***************************************************************************)
EXTENDS Integers, Sequences, FiniteSets

\* ---------------------------------------------------------------- bounds

\* Largest number of whole blocks in a frameCount the caller passes.
MaxBlocks == 2

\* Number of process calls a caller makes on one handle.
MaxCalls == 2

\* Number of different output blocks (and of internal states, and of
\* varieties) of the external engine.
NumOutcomes == 2

\* Samples of the caller's array that lie beyond frameCount.
MaxTail == 1

\* Double-units per float-unit (the float grid is coarser than the double grid).
FloatStep == 2

\* ------------------------------------------------------ program constants

fsize == 1920
ovrlp == 4
anr_bsize == 480
MAX_CHANNELS == 8

\* const int bsize = fsize / ovrlp;
emnr_bsize == fsize \div ovrlp

\* The callers' handle variables and the callers' threads.
Slots == {"s1", "s2"}
Threads == {"t1", "t2"}

\* One caller with one handle variable.
SoloSlots == {"s1"}
SoloThreads == {"t1"}

\* A pointer is NULL or names the block it points to.
NULL == [slot |-> "none", field |-> "null"]
Block(s, f) == [slot |-> s, field |-> f]

\* A struct WDSP_EMNR / WDSP_ANR; calloc(1, sizeof) zeroes it.
ZeroStruct(k) == [kind |-> k, impl |-> NULL, workBuf |-> NULL, bufSize |-> 0]
NoStruct == [kind |-> "none", impl |-> NULL, workBuf |-> NULL, bufSize |-> 0]

\* An array that does not exist.
NoArray == [p \in {} |-> 0]

\* calloc(n, sizeof(double)): n zeroed doubles.
ZeroArray(n) == [j \in 0..(n - 1) |-> 0]

\* An engine object that does not exist, and one create_emnr/create_anr built.
NoEngine == [kind |-> "none", args |-> << >>, st |-> 0]

\* Mutant: the constructor leaves the engine's state uninitialised, so that it
\* starts from whatever the memory at the engine's address held.
Engine_Uninitialised(k, a) ==
    [kind |-> k, args |-> a, st |-> IF a[4].slot = "s1" THEN 0 ELSE 1]

Engine(k, a) == [kind |-> k, args |-> a, st |-> 0]

\* ------------------------------------------------------------ conversions

\* (double)f : exact.
ToDouble(f) == f * FloatStep

\* (float)d : round to nearest float, ties to the even one.
ToFloat(d) ==
    LET q == d \div FloatStep
        r == d % FloatStep
    IN  IF 2 * r < FloatStep THEN q
        ELSE IF 2 * r > FloatStep THEN q + 1
        ELSE IF q % 2 = 0 THEN q ELSE q + 1

\* ------------------------------------------------------------------ state

\* A caller's plan for one handle variable: the variant and sample rate it
\* creates and the process calls it makes, each with its frame count, the
\* pattern of its stream and the position in the stream its array starts at.
NoWrite == [by |-> "none", what |-> "none"]
NoPlan == [kind |-> "none", rate |-> 0, calls |-> << >>]
Plan(k, r, cs) == [kind |-> k, rate |-> r, calls |-> cs]
PlannedCall(fc, pt, b) == [fc |-> fc, pt |-> pt, base |-> b]

VARIABLES
    variety,    \* which external engine implementation is linked in
    ch,         \* CH ch[MAX_CHANNELS]
    plan,       \* plan[s]: what the caller of slot s is going to do, when planned
    live,       \* the heap blocks and engine objects that exist
    ctx,        \* ctx[s]: the caller's handle pointer (the value create returned)
    hnd,        \* hnd[s]: the struct behind ctx[s]
    wbuf,       \* wbuf[s]: the doubles of the block hnd[s].workBuf points to
    eng,        \* eng[s]: the engine object hnd[s].impl points to
    relLog,     \* the destroy_* / free calls made by the latest API call
    lastOp,     \* the latest API call: its name, slot, sampleRate (create) or
                \* pointer (process, destroy) argument, injected failure, and
                \* the blocks that were live when it was made
    ncalls,     \* ncalls[s]: process calls begun on the handle of slot s
    pc,         \* pc[t]: where thread t stands inside process
    arg,        \* arg[t]: the slot whose handle thread t passed as ctx
    inOut,      \* inOut[t]: the caller's float array
    frameCount, \* frameCount[t]
    offset,     \* offset[t]
    chunk,      \* chunk[t]
    pat,        \* pat[t]: what the caller's array held when process was entered
    base,       \* base[t]: the position in the caller's stream where the array starts
    alen,       \* alen[t]: how long the caller's array was when process was entered
    xcalls,     \* xcalls[t]: engine invocations made by this process call
    engOut,     \* engOut[t]: the scratch buffer as each invocation left it
    chunks,     \* chunks[t]: <<offset, chunk>> of each loop iteration begun
    wrLog,      \* wrLog[t]: the ranges <<first, last>> of inOut each unpack loop stored
    rdLog,      \* rdLog[t]: the ranges <<first, last>> of inOut each pack loop loaded
    lastWrite   \* lastWrite[s]: while a call is in progress on the handle of slot
                \* s, the thread that wrote its scratch buffer last and the step
                \* ("pack" or "engine") in which it did

heapVars == <<live, ctx, hnd, wbuf, eng>>
logVars == <<relLog, lastOp>>
callVars == <<pc, arg, inOut, frameCount, offset, chunk>>
ghostVars == <<pat, base, alen, xcalls, engOut, chunks, wrLog, rdLog, lastWrite>>
envVars == <<variety, ch, plan>>
vars == <<envVars, heapVars, logVars, ncalls, callVars, ghostVars>>

\* No handle exists and no thread is inside process.
Fresh ==
    /\ variety \in 1..NumOutcomes
    /\ ch = [i \in 0..(MAX_CHANNELS - 1) |-> [csDSP |-> [unused |-> 0]]]
    /\ live = {}
    /\ ctx = [s \in Slots |-> NULL]
    /\ hnd = [s \in Slots |-> NoStruct]
    /\ wbuf = [s \in Slots |-> NoArray]
    /\ eng = [s \in Slots |-> NoEngine]
    /\ relLog = << >>
    /\ lastOp = [op |-> "none", slot |-> "none", rate |-> 0, ptr |-> NULL,
                 fail |-> "none", before |-> {}]
    /\ ncalls = [s \in Slots |-> 0]
    /\ pc = [t \in Threads |-> "idle"]
    /\ arg = [t \in Threads |-> "none"]
    /\ inOut = [t \in Threads |-> NoArray]
    /\ frameCount = [t \in Threads |-> 0]
    /\ offset = [t \in Threads |-> 0]
    /\ chunk = [t \in Threads |-> 0]
    /\ pat = [t \in Threads |-> "none"]
    /\ base = [t \in Threads |-> 0]
    /\ alen = [t \in Threads |-> 0]
    /\ xcalls = [t \in Threads |-> 0]
    /\ engOut = [t \in Threads |-> << >>]
    /\ chunks = [t \in Threads |-> << >>]
    /\ wrLog = [t \in Threads |-> << >>]
    /\ rdLog = [t \in Threads |-> << >>]
    /\ lastWrite = [s \in Slots |-> NoWrite]

Init == Fresh /\ plan = [s \in Slots |-> NoPlan]

\* ------------------------------------------------------- create / destroy

\* Which of the three allocations of a create call returns NULL.
Fails == {"none", "ctx", "workBuf", "impl"}

SampleRates(k) == IF k = "emnr" THEN {12000, 48000} ELSE {0, 48000}

Call(o, p) == [op |-> o, ptr |-> p]

\* The blocks left after the release calls rels, made in order on heap h.
RECURSIVE Released(_, _)
Released(h, rels) ==
    IF rels = << >> THEN h ELSE Released(h \ {Head(rels).ptr}, Tail(rels))

\* The release calls rels as logged: each with whether its block still existed.
Logged(h, rels) ==
    [i \in 1..Len(rels) |->
        [op |-> rels[i].op, ptr |-> rels[i].ptr,
         ok |-> rels[i].ptr \in Released(h, SubSeq(rels, 1, i - 1))]]

\* Mutant: when create_emnr fails, only ctx is freed (workBuf leaks).
wdsp_emnr_create_LeaksScratch(s, sampleRate, fail) ==
    LET c == Block(s, "ctx")
        w == Block(s, "workBuf")
        e == Block(s, "impl")
        bsize == fsize \div ovrlp
        a == <<1, 0, bsize, w, w, fsize, ovrlp, sampleRate, 0, "1.0", 2, 0, 1>>
        h == [ZeroStruct("emnr") EXCEPT !.bufSize = bsize, !.workBuf = w, !.impl = e]
        none == [ret |-> NULL, allocs |-> {}, rels |-> << >>,
                 hnd |-> NoStruct, wbuf |-> NoArray, eng |-> NoEngine]
    IN  CASE fail = "ctx" -> none
          [] fail = "workBuf" ->
                [none EXCEPT !.allocs = {c}, !.rels = <<Call("free", c)>>]
          [] fail = "impl" ->
                [none EXCEPT !.allocs = {c, w}, !.rels = <<Call("free", c)>>]
          [] OTHER ->
                [ret |-> c, allocs |-> {c, w, e}, rels |-> << >>,
                 hnd |-> h, wbuf |-> ZeroArray(2 * bsize), eng |-> Engine("emnr", a)]

\* Mutant: the scratch buffer is allocated with bsize doubles, not 2 * bsize.
wdsp_emnr_create_ScratchOfBsize(s, sampleRate, fail) ==
    LET c == Block(s, "ctx")
        w == Block(s, "workBuf")
        e == Block(s, "impl")
        bsize == fsize \div ovrlp
        a == <<1, 0, bsize, w, w, fsize, ovrlp, sampleRate, 0, "1.0", 2, 0, 1>>
        h == [ZeroStruct("emnr") EXCEPT !.bufSize = bsize, !.workBuf = w, !.impl = e]
        none == [ret |-> NULL, allocs |-> {}, rels |-> << >>,
                 hnd |-> NoStruct, wbuf |-> NoArray, eng |-> NoEngine]
    IN  CASE fail = "ctx" -> none
          [] fail = "workBuf" ->
                [none EXCEPT !.allocs = {c}, !.rels = <<Call("free", c)>>]
          [] fail = "impl" ->
                [none EXCEPT !.allocs = {c, w},
                             !.rels = <<Call("free", w), Call("free", c)>>]
          [] OTHER ->
                [ret |-> c, allocs |-> {c, w, e}, rels |-> << >>,
                 hnd |-> h, wbuf |-> ZeroArray(bsize), eng |-> Engine("emnr", a)]

\* Mutant: the scratch buffer is one static array, the same for every handle.
wdsp_emnr_create_StaticScratch(s, sampleRate, fail) ==
    LET c == Block(s, "ctx")
        w == Block("s1", "workBuf")
        e == Block(s, "impl")
        bsize == fsize \div ovrlp
        a == <<1, 0, bsize, w, w, fsize, ovrlp, sampleRate, 0, "1.0", 2, 0, 1>>
        h == [ZeroStruct("emnr") EXCEPT !.bufSize = bsize, !.workBuf = w, !.impl = e]
        none == [ret |-> NULL, allocs |-> {}, rels |-> << >>,
                 hnd |-> NoStruct, wbuf |-> NoArray, eng |-> NoEngine]
    IN  CASE fail = "ctx" -> none
          [] fail = "impl" ->
                [none EXCEPT !.allocs = {c}, !.rels = <<Call("free", c)>>]
          [] OTHER ->
                [ret |-> c, allocs |-> {c, w, e}, rels |-> << >>,
                 hnd |-> h, wbuf |-> ZeroArray(2 * bsize), eng |-> Engine("emnr", a)]

\* wdsp_emnr_create: the value returned, the blocks it allocated, the release
\* calls it made, and the struct and engine it built.
wdsp_emnr_create(s, sampleRate, fail) ==
    LET c == IF fail = "ctx" THEN NULL ELSE Block(s, "ctx")
        bsize == fsize \div ovrlp
        w == IF fail = "workBuf" THEN NULL ELSE Block(s, "workBuf")
        e == IF fail = "impl" THEN NULL ELSE Block(s, "impl")
        a == <<1, 0, bsize, w, w, fsize, ovrlp, sampleRate, 0, "1.0", 2, 0, 1>>
        h == [ZeroStruct("emnr") EXCEPT !.bufSize = bsize, !.workBuf = w, !.impl = e]
    IN  IF c = NULL
        THEN [ret |-> NULL, allocs |-> {}, rels |-> << >>,
              hnd |-> NoStruct, wbuf |-> NoArray, eng |-> NoEngine]
        ELSE IF w = NULL
        THEN [ret |-> NULL, allocs |-> {c}, rels |-> <<Call("free", c)>>,
              hnd |-> NoStruct, wbuf |-> NoArray, eng |-> NoEngine]
        ELSE IF e = NULL
        THEN [ret |-> NULL, allocs |-> {c, w},
              rels |-> <<Call("free", w), Call("free", c)>>,
              hnd |-> NoStruct, wbuf |-> NoArray, eng |-> NoEngine]
        ELSE [ret |-> c, allocs |-> {c, w, e}, rels |-> << >>,
              hnd |-> h, wbuf |-> ZeroArray(2 * bsize), eng |-> Engine("emnr", a)]

\* Mutant: when create_anr fails the blocks are freed but ctx is returned.
wdsp_anr_create_ReturnsFreed(s, sampleRate, fail) ==
    LET c == Block(s, "ctx")
        w == Block(s, "workBuf")
        e == Block(s, "impl")
        bsize == anr_bsize
        a == <<1, 0, bsize, w, w, 2048, 64, 16, "0.0001", "0.1", "120.0",
               "120.0", "200.0", "0.001", "6.25e-10", "1.0", "3.0">>
        h == [ZeroStruct("anr") EXCEPT !.bufSize = bsize, !.workBuf = w, !.impl = e]
        none == [ret |-> NULL, allocs |-> {}, rels |-> << >>,
                 hnd |-> NoStruct, wbuf |-> NoArray, eng |-> NoEngine]
    IN  CASE fail = "ctx" -> none
          [] fail = "workBuf" ->
                [none EXCEPT !.allocs = {c}, !.rels = <<Call("free", c)>>]
          [] fail = "impl" ->
                [none EXCEPT !.ret = c, !.allocs = {c, w},
                             !.rels = <<Call("free", w), Call("free", c)>>]
          [] OTHER ->
                [ret |-> c, allocs |-> {c, w, e}, rels |-> << >>,
                 hnd |-> h, wbuf |-> ZeroArray(2 * bsize), eng |-> Engine("anr", a)]

\* Mutant: create_anr is given sampleRate where the code passes 2048.
wdsp_anr_create_PassesRate(s, sampleRate, fail) ==
    LET c == Block(s, "ctx")
        w == Block(s, "workBuf")
        e == Block(s, "impl")
        bsize == anr_bsize
        a == <<1, 0, bsize, w, w, sampleRate, 64, 16, "0.0001", "0.1", "120.0",
               "120.0", "200.0", "0.001", "6.25e-10", "1.0", "3.0">>
        h == [ZeroStruct("anr") EXCEPT !.bufSize = bsize, !.workBuf = w, !.impl = e]
        none == [ret |-> NULL, allocs |-> {}, rels |-> << >>,
                 hnd |-> NoStruct, wbuf |-> NoArray, eng |-> NoEngine]
    IN  CASE fail = "ctx" -> none
          [] fail = "workBuf" ->
                [none EXCEPT !.allocs = {c}, !.rels = <<Call("free", c)>>]
          [] fail = "impl" ->
                [none EXCEPT !.allocs = {c, w},
                             !.rels = <<Call("free", w), Call("free", c)>>]
          [] OTHER ->
                [ret |-> c, allocs |-> {c, w, e}, rels |-> << >>,
                 hnd |-> h, wbuf |-> ZeroArray(2 * bsize), eng |-> Engine("anr", a)]

\* wdsp_anr_create; sampleRate is cast to void.
wdsp_anr_create(s, sampleRate, fail) ==
    LET c == IF fail = "ctx" THEN NULL ELSE Block(s, "ctx")
        bsize == anr_bsize
        w == IF fail = "workBuf" THEN NULL ELSE Block(s, "workBuf")
        e == IF fail = "impl" THEN NULL ELSE Block(s, "impl")
        a == <<1, 0, bsize, w, w, 2048, 64, 16, "0.0001", "0.1", "120.0",
               "120.0", "200.0", "0.001", "6.25e-10", "1.0", "3.0">>
        h == [ZeroStruct("anr") EXCEPT !.bufSize = bsize, !.workBuf = w, !.impl = e]
    IN  IF c = NULL
        THEN [ret |-> NULL, allocs |-> {}, rels |-> << >>,
              hnd |-> NoStruct, wbuf |-> NoArray, eng |-> NoEngine]
        ELSE IF w = NULL
        THEN [ret |-> NULL, allocs |-> {c}, rels |-> <<Call("free", c)>>,
              hnd |-> NoStruct, wbuf |-> NoArray, eng |-> NoEngine]
        ELSE IF e = NULL
        THEN [ret |-> NULL, allocs |-> {c, w},
              rels |-> <<Call("free", w), Call("free", c)>>,
              hnd |-> NoStruct, wbuf |-> NoArray, eng |-> NoEngine]
        ELSE [ret |-> c, allocs |-> {c, w, e}, rels |-> << >>,
              hnd |-> h, wbuf |-> ZeroArray(2 * bsize), eng |-> Engine("anr", a)]

\* The caller stores what create returned in its handle variable s.
Created(s, r, name, sampleRate, fail) ==
    /\ live' = Released(live \cup r.allocs, r.rels)
    /\ ctx' = [ctx EXCEPT ![s] = r.ret]
    /\ hnd' = [hnd EXCEPT ![s] = r.hnd]
    /\ wbuf' = IF r.ret = NULL THEN wbuf
               ELSE [wbuf EXCEPT ![r.hnd.workBuf.slot] = r.wbuf]
    /\ eng' = IF r.ret = NULL THEN eng
              ELSE [eng EXCEPT ![r.hnd.impl.slot] = r.eng]
    /\ relLog' = Logged(live \cup r.allocs, r.rels)
    /\ lastOp' = [op |-> name, slot |-> s, rate |-> sampleRate, ptr |-> NULL,
                  fail |-> fail, before |-> live]
    /\ UNCHANGED <<envVars, ncalls, callVars, ghostVars>>

EmnrCreate(s) ==
    /\ ctx[s] = NULL
    /\ \E sampleRate \in SampleRates("emnr"), fail \in Fails :
          Created(s, wdsp_emnr_create(s, sampleRate, fail), "wdsp_emnr_create",
                  sampleRate, fail)

AnrCreate(s) ==
    /\ ctx[s] = NULL
    /\ \E sampleRate \in SampleRates("anr"), fail \in Fails :
          Created(s, wdsp_anr_create(s, sampleRate, fail), "wdsp_anr_create",
                  sampleRate, fail)

\* A handle a caller may pass to process or destroy: created, not destroyed.
Ready(s) == ctx[s] # NULL /\ ctx[s] \in live

\* No thread is inside process on the handle of slot s.
Quiet(s) == \A t \in Threads : pc[t] = "idle" \/ arg[t] # s

\* wdsp_emnr_destroy(c) with the struct h behind c: its release calls, in order.
\* Mutant: the test for a null handle is missing.
wdsp_emnr_destroy_NoNullCheck(c, h) ==
    <<Call("destroy_emnr", h.impl), Call("free", h.workBuf), Call("free", c)>>

wdsp_emnr_destroy(c, h) ==
    IF c = NULL THEN << >>
    ELSE <<Call("destroy_emnr", h.impl), Call("free", h.workBuf), Call("free", c)>>

\* Mutant: the struct is freed before the scratch buffer it points to.
wdsp_anr_destroy_FreesStructFirst(c, h) ==
    IF c = NULL THEN << >>
    ELSE <<Call("destroy_anr", h.impl), Call("free", c), Call("free", h.workBuf)>>

wdsp_anr_destroy(c, h) ==
    IF c = NULL THEN << >>
    ELSE <<Call("destroy_anr", h.impl), Call("free", h.workBuf), Call("free", c)>>

\* The caller passes the value of its handle variable s to destroy.
Destroyed(s, rels, name) ==
    /\ live' = Released(live, rels)
    /\ hnd' = IF ctx[s] = NULL THEN hnd ELSE [hnd EXCEPT ![s] = NoStruct]
    /\ wbuf' = IF ctx[s] = NULL THEN wbuf
               ELSE [wbuf EXCEPT ![hnd[s].workBuf.slot] = NoArray]
    /\ eng' = IF ctx[s] = NULL THEN eng
              ELSE [eng EXCEPT ![hnd[s].impl.slot] = NoEngine]
    /\ relLog' = Logged(live, rels)
    /\ lastOp' = [op |-> name, slot |-> s, rate |-> 0, ptr |-> ctx[s],
                  fail |-> "none", before |-> live]
    /\ UNCHANGED <<envVars, ctx, ncalls, callVars, ghostVars>>

EmnrDestroy(s) ==
    /\ Ready(s) /\ hnd[s].kind = "emnr" /\ Quiet(s)
    /\ Destroyed(s, wdsp_emnr_destroy(ctx[s], hnd[s]), "wdsp_emnr_destroy")

AnrDestroy(s) ==
    /\ Ready(s) /\ hnd[s].kind = "anr" /\ Quiet(s)
    /\ Destroyed(s, wdsp_anr_destroy(ctx[s], hnd[s]), "wdsp_anr_destroy")

\* destroy called with a handle variable that holds NULL.
EmnrDestroyNull(s) ==
    /\ ctx[s] = NULL
    /\ Destroyed(s, wdsp_emnr_destroy(ctx[s], hnd[s]), "wdsp_emnr_destroy")

AnrDestroyNull(s) ==
    /\ ctx[s] = NULL
    /\ Destroyed(s, wdsp_anr_destroy(ctx[s], hnd[s]), "wdsp_anr_destroy")

\* ---------------------------------------------------------------- process

\* The frame counts a caller passes for block size B: none, one sample, and
\* one less than, exactly, and one more than each whole number of blocks.
FrameCounts(B) ==
    {0, 1} \cup {n * B + d : n \in 1..MaxBlocks, d \in {-1, 0, 1}}

\* The frame counts of a caller that passes a negative int.
NegativeFrameCounts(B) == {-B, -1}

\* The arrays a caller passes: exactly frameCount samples of silence, or
\* non-zero samples in an array MaxTail longer than frameCount.
Patterns == {"silence", "ramp"}
TailOf(pt) == IF pt = "silence" THEN 0 ELSE MaxTail
Sample(pt, p) == IF pt = "silence" THEN 0 ELSE (p % 3) + 1
BufferAt(pt, b, n) == [p \in 0..(n - 1) |-> Sample(pt, b + p)]
Buffer(pt, n) == BufferAt(pt, 0, n)

\* The caller's array of thread t as it was when process was entered.
In0(t) == BufferAt(pat[t], base[t], alen[t])

\* Mutant: the loop runs until offset equals frameCount (!= for <).
LoopCond_NotEqual(off, fc) == off # fc

\* Mutant: the loop runs once more when offset = frameCount.
LoopCond_Inclusive(off, fc) == off <= fc

\* while (offset < frameCount)
LoopCond(off, fc) == off < fc

\* Mutant: the clamp is off by one (chunk >= bufSize gives bufSize - 1).
ChunkSize_ClampOffByOne(fc, off, bufSize) ==
    LET c == fc - off IN IF c >= bufSize THEN bufSize - 1 ELSE c

\* int chunk = frameCount - offset; if (chunk > ctx->bufSize) chunk = ctx->bufSize;
ChunkSize(fc, off, bufSize) ==
    LET c == fc - off IN IF c > bufSize THEN bufSize ELSE c

\* The range of inOut the pack loop loads: inOut[offset + i], 0 <= i < chunk.
PackRange(off, c) == <<off, off + c - 1>>

\* The least and the greatest index of workBuf each loop uses:
\* the pack loop workBuf[2*i], workBuf[2*i + 1] for 0 <= i < chunk,
\* the zero-pad loop the same for chunk <= i < bufSize,
\* the unpack loop workBuf[2*i] for 0 <= i < chunk.
PackSlots(c) == <<0, 2 * (c - 1) + 1>>
PadSlots(c, bufSize) == <<2 * c, 2 * (bufSize - 1) + 1>>
UnpackSlots(c) == <<0, 2 * (c - 1)>>

\* Mutant: the pack loop adds the sample to the real slot (+= for =).
PackChunk_AddsToScratch(wb, buf, off, c) ==
    [j \in DOMAIN wb |->
        IF j \div 2 < c
        THEN IF j % 2 = 0 THEN wb[j] + ToDouble(buf[off + (j \div 2)]) ELSE 0
        ELSE wb[j]]

\* Mutant: the pack loop sets the real slot only (workBuf[2*i + 1] is left).
PackChunk_KeepsImaginary(wb, buf, off, c) ==
    [j \in DOMAIN wb |->
        IF j \div 2 < c /\ j % 2 = 0 THEN ToDouble(buf[off + (j \div 2)]) ELSE wb[j]]

\* for (i = 0; i < chunk; i++) { workBuf[2*i] = (double)inOut[offset+i]; workBuf[2*i+1] = 0.0; }
PackChunk(wb, buf, off, c) ==
    [j \in DOMAIN wb |->
        IF j \div 2 < c
        THEN IF j % 2 = 0 THEN ToDouble(buf[off + (j \div 2)]) ELSE 0
        ELSE wb[j]]

\* Mutant: the zero-pad loop starts one pair late (i = chunk + 1).
ZeroPad_StartsLate(wb, c, bufSize) ==
    [j \in DOMAIN wb |->
        IF c + 1 <= j \div 2 /\ j \div 2 < bufSize THEN 0 ELSE wb[j]]

\* for (i = chunk; i < bufSize; i++) { workBuf[2*i] = 0.0; workBuf[2*i+1] = 0.0; }
ZeroPad(wb, c, bufSize) ==
    [j \in DOMAIN wb |->
        IF c <= j \div 2 /\ j \div 2 < bufSize THEN 0 ELSE wb[j]]

\* One block as the engine may leave it: outcome 1 passes the real parts
\* through and clears the imaginary parts; every other outcome changes the
\* real parts and leaves non-zero imaginary parts, over the whole block.
EngineBlock(o, wb) ==
    [j \in DOMAIN wb |->
        IF j % 2 = 0
        THEN wb[j] + (o - 1) * (((j \div 2) % 3) + 1)
        ELSE (o - 1) * (((j \div 2) % 2) + 1)]

\* The outcome an engine of variety v produces in internal state st, and the
\* state it moves to.
EngineOutcome(v, st) == ((v + st) % NumOutcomes) + 1
EngineNext(st) == (st + 1) % NumOutcomes

\* Mutant: the unpack loop runs to the block size (i < bufSize).
UnpackRange_WholeBlock(off, c) == <<off, off + emnr_bsize - 1>>

\* The range of inOut the unpack loop stores: inOut[offset + i], 0 <= i < chunk.
UnpackRange(off, c) == <<off, off + c - 1>>

\* Mutant: the unpack loop copies the imaginary slot (workBuf[2*i + 1]).
Unpack_Imaginary(buf, wb, off, c) ==
    LET r == UnpackRange(off, c) IN
    [p \in DOMAIN buf |->
        IF r[1] <= p /\ p <= r[2] THEN ToFloat(wb[2 * (p - off) + 1]) ELSE buf[p]]

\* for (i = 0; i < chunk; i++) inOut[offset + i] = (float)workBuf[2*i];
Unpack(buf, wb, off, c) ==
    LET r == UnpackRange(off, c) IN
    [p \in DOMAIN buf |->
        IF r[1] <= p /\ p <= r[2] THEN ToFloat(wb[2 * (p - off)]) ELSE buf[p]]

\* Mutant: offset += chunk is left out.
Advance_NoProgress(off, c) == off

\* Mutant: the offset skips one sample per chunk.
Advance_SkipsOne(off, c) == off + c + 1

\* offset += chunk;
Advance(off, c) == off + c

\* The length of the array a caller passes with frameCount fc and pattern pt.
ArrayFor(fc, pt) == (IF fc > 0 THEN fc ELSE 0) + TailOf(pt)

ProcessOf(k) == IF k = "emnr" THEN "wdsp_emnr_process" ELSE "wdsp_anr_process"

\* Thread t calls process(ctx[s], inOut, fc) on a handle of kind k, inOut
\* holding the samples of pattern pt from position b on: int offset = 0.
EnterCall(t, s, k, fc, pt, b) ==
    /\ pc[t] = "idle"
    /\ Ready(s) /\ hnd[s].kind = k
    /\ inOut' = [inOut EXCEPT ![t] = BufferAt(pt, b, ArrayFor(fc, pt))]
    /\ pat' = [pat EXCEPT ![t] = pt]
    /\ base' = [base EXCEPT ![t] = b]
    /\ alen' = [alen EXCEPT ![t] = ArrayFor(fc, pt)]
    /\ frameCount' = [frameCount EXCEPT ![t] = fc]
    /\ relLog' = << >>
    /\ lastOp' = [op |-> ProcessOf(k), slot |-> s, rate |-> 0, ptr |-> ctx[s],
                  fail |-> "none", before |-> live]
    /\ arg' = [arg EXCEPT ![t] = s]
    /\ offset' = [offset EXCEPT ![t] = 0]
    /\ chunk' = [chunk EXCEPT ![t] = 0]
    /\ pc' = [pc EXCEPT ![t] = "test"]
    /\ ncalls' = [ncalls EXCEPT ![s] = @ + 1]
    /\ xcalls' = [xcalls EXCEPT ![t] = 0]
    /\ engOut' = [engOut EXCEPT ![t] = << >>]
    /\ chunks' = [chunks EXCEPT ![t] = << >>]
    /\ wrLog' = [wrLog EXCEPT ![t] = << >>]
    /\ rdLog' = [rdLog EXCEPT ![t] = << >>]
    /\ UNCHANGED <<envVars, heapVars, lastWrite>>

\* The caller serialises the calls on one handle and makes at most MaxCalls.
Enter(t, s, k) ==
    /\ Quiet(s)
    /\ ncalls[s] < MaxCalls
    /\ \E fc \in FrameCounts(hnd[s].bufSize), pt \in Patterns :
          EnterCall(t, s, k, fc, pt, 0)

At(t, k, where) == pc[t] = where /\ hnd[arg[t]].kind = k

\* The loop test and, when it passes, the computation of chunk.
LoopTest(t, k) ==
    /\ At(t, k, "test")
    /\ IF LoopCond(offset[t], frameCount[t])
       THEN /\ chunk' = [chunk EXCEPT ![t] =
                            ChunkSize(frameCount[t], offset[t], hnd[arg[t]].bufSize)]
            /\ chunks' = [chunks EXCEPT ![t] = Append(@, <<offset[t], chunk'[t]>>)]
            /\ pc' = [pc EXCEPT ![t] = "pack"]
       ELSE /\ pc' = [pc EXCEPT ![t] = "done"]
            /\ UNCHANGED <<chunk, chunks>>
    /\ UNCHANGED <<envVars, heapVars, logVars, ncalls, arg, inOut, frameCount,
                   offset, pat, base, alen, xcalls, engOut, wrLog, rdLog, lastWrite>>

\* Mutant: every chunk is packed into a block allocated for it.
Pack_AllocatesPerChunk(t, k) ==
    /\ At(t, k, "pack")
    /\ LET c == hnd[arg[t]] IN
          wbuf' = [wbuf EXCEPT ![c.workBuf.slot] =
                      ZeroPad(PackChunk(@, inOut[t], offset[t], chunk[t]),
                              chunk[t], c.bufSize)]
    /\ live' = live \cup {Block(arg[t], "tmp")}
    /\ lastWrite' = [lastWrite EXCEPT ![hnd[arg[t]].workBuf.slot] =
                                         [by |-> t, what |-> "pack"]]
    /\ rdLog' = [rdLog EXCEPT ![t] = Append(@, PackRange(offset[t], chunk[t]))]
    /\ pc' = [pc EXCEPT ![t] = "engine"]
    /\ UNCHANGED <<envVars, ctx, hnd, eng, logVars, ncalls, arg, inOut,
                   frameCount, offset, chunk, pat, base, alen, xcalls, engOut, chunks, wrLog>>

\* The pack loop and the zero-pad loop.
Pack(t, k) ==
    /\ At(t, k, "pack")
    /\ LET c == hnd[arg[t]] IN
          wbuf' = [wbuf EXCEPT ![c.workBuf.slot] =
                      ZeroPad(PackChunk(@, inOut[t], offset[t], chunk[t]),
                              chunk[t], c.bufSize)]
    /\ lastWrite' = [lastWrite EXCEPT ![hnd[arg[t]].workBuf.slot] =
                                         [by |-> t, what |-> "pack"]]
    /\ rdLog' = [rdLog EXCEPT ![t] = Append(@, PackRange(offset[t], chunk[t]))]
    /\ pc' = [pc EXCEPT ![t] = "engine"]
    /\ UNCHANGED <<envVars, live, ctx, hnd, eng, logVars, ncalls, arg, inOut,
                   frameCount, offset, chunk, pat, base, alen, xcalls, engOut, chunks, wrLog>>

\* xemnr(ctx->impl, 0) / xanr(ctx->impl, 0): the engine reads the block its
\* constructor was given as in and writes the one it was given as out.
RunEngine(t, k) ==
    /\ At(t, k, "engine")
    /\ LET e == hnd[arg[t]].impl.slot
            in == eng[e].args[4]
            out == eng[e].args[5]
        IN
          /\ wbuf' = [wbuf EXCEPT ![out.slot] =
                         EngineBlock(EngineOutcome(variety, eng[e].st), wbuf[in.slot])]
          /\ eng' = [eng EXCEPT ![e].st = EngineNext(@)]
          /\ engOut' = [engOut EXCEPT ![t] = Append(@, wbuf'[out.slot])]
          /\ lastWrite' = [lastWrite EXCEPT ![out.slot] = [by |-> t, what |-> "engine"]]
    /\ xcalls' = [xcalls EXCEPT ![t] = @ + 1]
    /\ pc' = [pc EXCEPT ![t] = "unpack"]
    /\ UNCHANGED <<envVars, live, ctx, hnd, logVars, ncalls, arg, inOut,
                   frameCount, offset, chunk, pat, base, alen, chunks, wrLog, rdLog>>

\* The unpack loop and offset += chunk.
UnpackStep(t, k) ==
    /\ At(t, k, "unpack")
    /\ inOut' = [inOut EXCEPT ![t] =
                    Unpack(@, wbuf[hnd[arg[t]].workBuf.slot], offset[t], chunk[t])]
    /\ wrLog' = [wrLog EXCEPT ![t] = Append(@, UnpackRange(offset[t], chunk[t]))]
    /\ offset' = [offset EXCEPT ![t] = Advance(@, chunk[t])]
    /\ pc' = [pc EXCEPT ![t] = "test"]
    /\ UNCHANGED <<envVars, heapVars, logVars, ncalls, arg, frameCount, chunk,
                   pat, base, alen, xcalls, engOut, chunks, rdLog, lastWrite>>

\* Mutant: the engine is flushed to its initial state before process returns.
Return_FlushesEngine(t, k) ==
    /\ At(t, k, "done")
    /\ pc' = [pc EXCEPT ![t] = "idle"]
    /\ arg' = [arg EXCEPT ![t] = "none"]
    /\ inOut' = [inOut EXCEPT ![t] = NoArray]
    /\ pat' = [pat EXCEPT ![t] = "none"]
    /\ base' = [base EXCEPT ![t] = 0]
    /\ alen' = [alen EXCEPT ![t] = 0]
    /\ frameCount' = [frameCount EXCEPT ![t] = 0]
    /\ offset' = [offset EXCEPT ![t] = 0]
    /\ chunk' = [chunk EXCEPT ![t] = 0]
    /\ xcalls' = [xcalls EXCEPT ![t] = 0]
    /\ engOut' = [engOut EXCEPT ![t] = << >>]
    /\ chunks' = [chunks EXCEPT ![t] = << >>]
    /\ wrLog' = [wrLog EXCEPT ![t] = << >>]
    /\ rdLog' = [rdLog EXCEPT ![t] = << >>]
    /\ lastWrite' = IF \E u \in Threads \ {t} : pc[u] # "idle" /\ arg[u] = arg[t]
                    THEN lastWrite
                    ELSE [lastWrite EXCEPT ![hnd[arg[t]].workBuf.slot] = NoWrite]
    /\ eng' = [eng EXCEPT ![hnd[arg[t]].impl.slot].st = 0]
    /\ UNCHANGED <<envVars, live, ctx, hnd, wbuf, logVars, ncalls>>

\* process has returned; the caller takes its array away.
Return(t, k) ==
    /\ At(t, k, "done")
    /\ pc' = [pc EXCEPT ![t] = "idle"]
    /\ arg' = [arg EXCEPT ![t] = "none"]
    /\ inOut' = [inOut EXCEPT ![t] = NoArray]
    /\ pat' = [pat EXCEPT ![t] = "none"]
    /\ base' = [base EXCEPT ![t] = 0]
    /\ alen' = [alen EXCEPT ![t] = 0]
    /\ frameCount' = [frameCount EXCEPT ![t] = 0]
    /\ offset' = [offset EXCEPT ![t] = 0]
    /\ chunk' = [chunk EXCEPT ![t] = 0]
    /\ xcalls' = [xcalls EXCEPT ![t] = 0]
    /\ engOut' = [engOut EXCEPT ![t] = << >>]
    /\ chunks' = [chunks EXCEPT ![t] = << >>]
    /\ wrLog' = [wrLog EXCEPT ![t] = << >>]
    /\ rdLog' = [rdLog EXCEPT ![t] = << >>]
    /\ lastWrite' = IF \E u \in Threads \ {t} : pc[u] # "idle" /\ arg[u] = arg[t]
                    THEN lastWrite
                    ELSE [lastWrite EXCEPT ![hnd[arg[t]].workBuf.slot] = NoWrite]
    /\ UNCHANGED <<envVars, heapVars, logVars, ncalls>>

EmnrEnter(t, s) == Enter(t, s, "emnr")
EmnrLoopTest(t) == LoopTest(t, "emnr")
EmnrPack(t) == Pack(t, "emnr")
EmnrXemnr(t) == RunEngine(t, "emnr")
EmnrUnpack(t) == UnpackStep(t, "emnr")
EmnrReturn(t) == Return(t, "emnr")

AnrEnter(t, s) == Enter(t, s, "anr")
AnrLoopTest(t) == LoopTest(t, "anr")
AnrPack(t) == Pack(t, "anr")
AnrXanr(t) == RunEngine(t, "anr")
AnrUnpack(t) == UnpackStep(t, "anr")
AnrReturn(t) == Return(t, "anr")

\* One step of thread t inside process.
ProcessStep(t) ==
    \/ EmnrLoopTest(t) \/ EmnrPack(t) \/ EmnrXemnr(t) \/ EmnrUnpack(t)
    \/ AnrLoopTest(t) \/ AnrPack(t) \/ AnrXanr(t) \/ AnrUnpack(t)

\* One caller, one handle variable, any frame counts.
Next ==
    \/ \E s \in SoloSlots : EmnrCreate(s)
    \/ \E s \in SoloSlots : AnrCreate(s)
    \/ \E s \in SoloSlots : EmnrDestroy(s)
    \/ \E s \in SoloSlots : AnrDestroy(s)
    \/ \E s \in SoloSlots : EmnrDestroyNull(s)
    \/ \E s \in SoloSlots : AnrDestroyNull(s)
    \/ \E t \in SoloThreads, s \in SoloSlots : EmnrEnter(t, s)
    \/ \E t \in SoloThreads, s \in SoloSlots : AnrEnter(t, s)
    \/ \E t \in SoloThreads : ProcessStep(t)
    \/ \E t \in SoloThreads : EmnrReturn(t)
    \/ \E t \in SoloThreads : AnrReturn(t)

Spec == Init /\ [][Next]_vars

\* A caller that also passes negative frame counts.
EnterNegative(t, s, k) ==
    /\ Quiet(s)
    /\ ncalls[s] < MaxCalls
    /\ \E fc \in NegativeFrameCounts(hnd[s].bufSize), pt \in Patterns :
          EnterCall(t, s, k, fc, pt, 0)

EmnrEnterNegative(t, s) == EnterNegative(t, s, "emnr")
AnrEnterNegative(t, s) == EnterNegative(t, s, "anr")

AnyIntNext ==
    \/ Next
    \/ \E t \in SoloThreads, s \in SoloSlots : EmnrEnterNegative(t, s)
    \/ \E t \in SoloThreads, s \in SoloSlots : AnrEnterNegative(t, s)

AnyIntSpec == Init /\ [][AnyIntNext]_vars

\* process runs to completion on the caller's thread: a step of it that can
\* be taken is taken.
FairSpec == Spec /\ \A t \in SoloThreads : WF_vars(ProcessStep(t))

\* ------------------------------------------------------------ two callers

\* Two callers, each with its own handle variable and its own thread.
SlotOf(t) == IF t = "t1" THEN "s1" ELSE "s2"

\* A stream of F1 + F2 samples given to process in one call, and the same
\* stream given in two calls, process(buf, F1) and then process(buf + F1, F2).
Whole(pt, F1, F2) == <<PlannedCall(F1 + F2, pt, 0)>>
Split(pt, F1, F2) == <<PlannedCall(F1, pt, 0), PlannedCall(F2, pt, F1)>>

Both(p1, p2) == [s \in Slots |-> IF s = "s1" THEN p1 ELSE p2]

\* What the two callers are going to do.
Scenarios ==
    {Both(Plan("emnr", 48000, Whole("ramp", 480, 1)),
          Plan("emnr", 48000, Split("ramp", 480, 1))),
     Both(Plan("anr", 48000, Whole("ramp", 480, 480)),
          Plan("anr", 48000, Split("ramp", 480, 480))),
     Both(Plan("anr", 0, Whole("ramp", 480, 0)),
          Plan("anr", 0, Split("ramp", 480, 0))),
     Both(Plan("emnr", 12000, Split("ramp", 481, 1)),
          Plan("emnr", 12000, Split("ramp", 481, 1))),
     Both(Plan("anr", 48000, Split("ramp", 1, 481)),
          Plan("anr", 48000, Split("ramp", 1, 481))),
     Both(Plan("anr", 0, Split("ramp", 1, 480)),
          Plan("anr", 48000, Split("ramp", 1, 480))),
     Both(Plan("emnr", 48000, Whole("silence", 481, 0)),
          Plan("anr", 0, Split("ramp", 1, 480)))}

PairInit == Fresh /\ plan \in Scenarios

\* The caller of slot s creates the handle it planned.
PairEmnrCreate(s) ==
    /\ ctx[s] = NULL /\ plan[s].kind = "emnr"
    /\ \E fail \in Fails :
          Created(s, wdsp_emnr_create(s, plan[s].rate, fail), "wdsp_emnr_create",
                  plan[s].rate, fail)

PairAnrCreate(s) ==
    /\ ctx[s] = NULL /\ plan[s].kind = "anr"
    /\ \E fail \in Fails :
          Created(s, wdsp_anr_create(s, plan[s].rate, fail), "wdsp_anr_create",
                  plan[s].rate, fail)

\* Thread t makes the next process call its caller planned, on its own handle.
PairEnter(t, k) ==
    LET s == SlotOf(t) IN
    /\ ncalls[s] < Len(plan[s].calls)
    /\ LET c == plan[s].calls[ncalls[s] + 1] IN
          EnterCall(t, s, k, c.fc, c.pt, c.base)

PairEmnrEnter(t) == PairEnter(t, "emnr")
PairAnrEnter(t) == PairEnter(t, "anr")

PairNext ==
    \/ \E s \in Slots : PairEmnrCreate(s)
    \/ \E s \in Slots : PairAnrCreate(s)
    \/ \E s \in Slots : EmnrDestroy(s)
    \/ \E s \in Slots : AnrDestroy(s)
    \/ \E s \in Slots : EmnrDestroyNull(s)
    \/ \E s \in Slots : AnrDestroyNull(s)
    \/ \E t \in Threads : PairEmnrEnter(t)
    \/ \E t \in Threads : PairAnrEnter(t)
    \/ \E t \in Threads : ProcessStep(t)
    \/ \E t \in Threads : EmnrReturn(t)
    \/ \E t \in Threads : AnrReturn(t)

\* The two callers run concurrently, every step of either interleaved.
PairSpec == PairInit /\ [][PairNext]_vars

\* ----------------------------------------------- two threads, one handle

\* The call each of two threads makes on the one handle of a caller: thread
\* number i makes calls[i].
CallOf(t) == IF t = "t1" THEN 1 ELSE 2

RaceScenarios ==
    {Both(Plan(h[1], h[2], <<PlannedCall(c[1], c[2], 0), PlannedCall(c[3], c[4], 0)>>),
          NoPlan) :
        h \in {<<"emnr", 48000>>, <<"anr", 0>>},
        c \in {<<481, "silence", 1, "ramp">>, <<1, "ramp", 481, "ramp">>}}

RaceInit == Fresh /\ plan \in RaceScenarios

\* Thread t calls process on the handle of slot s while the other thread may
\* be inside process on it: the code takes no lock and the caller does not
\* serialise.
RaceEnter(t, s, k) ==
    /\ ncalls[s] < Len(plan[s].calls)
    /\ LET c == plan[s].calls[CallOf(t)] IN
          EnterCall(t, s, k, c.fc, c.pt, c.base)

RaceEmnrEnter(t, s) == RaceEnter(t, s, "emnr")
RaceAnrEnter(t, s) == RaceEnter(t, s, "anr")

RaceNext ==
    \/ \E s \in SoloSlots : PairEmnrCreate(s)
    \/ \E s \in SoloSlots : PairAnrCreate(s)
    \/ \E s \in SoloSlots : EmnrDestroy(s)
    \/ \E s \in SoloSlots : AnrDestroy(s)
    \/ \E t \in Threads, s \in SoloSlots : RaceEmnrEnter(t, s)
    \/ \E t \in Threads, s \in SoloSlots : RaceAnrEnter(t, s)
    \/ \E t \in Threads : ProcessStep(t)
    \/ \E t \in Threads : EmnrReturn(t)
    \/ \E t \in Threads : AnrReturn(t)

\* Two threads use one handle without serialising their process calls; a
\* step is one loop of process or one engine invocation.
RaceSpec == RaceInit /\ [][RaceNext]_vars

\* ----------------------------------------------------------------- claims

InCall(t) == pc[t] # "idle"
BufSize(t) == hnd[arg[t]].bufSize
Scratch(t) == wbuf[hnd[arg[t]].workBuf.slot]
ArrayLen(t) == Cardinality(DOMAIN inOut[t])
CeilDiv(a, b) == (a + b - 1) \div b

\* How many unpack loops of the call of thread t stored inOut[p].
WriteCount(t, p) ==
    Cardinality({i \in 1..Len(wrLog[t]) : wrLog[t][i][1] <= p /\ p <= wrLog[t][i][2]})

RECURSIVE SumChunks(_)
SumChunks(cs) == IF cs = << >> THEN 0 ELSE Head(cs)[2] + SumChunks(Tail(cs))

\* C1: on a Ready handle (block size 480, either variant) a process call
\* with frameCount F invokes the engine once per chunk and never more: while
\* the call runs the invocations made equal the chunks completed, and when it
\* returns they number ceil(F / 480); 960 gives 2, 481 gives 2, 959 gives 2
\* and 1 gives 1.
C1_OneEngineCallPerChunk ==
    \A t \in Threads : InCall(t) =>
        /\ BufSize(t) = 480
        /\ xcalls[t] = Len(engOut[t])
        /\ xcalls[t] =
              Len(chunks[t]) - (IF pc[t] \in {"pack", "engine"} THEN 1 ELSE 0)
        /\ xcalls[t] <= CeilDiv(frameCount[t], BufSize(t))
        /\ pc[t] = "done" =>
              /\ xcalls[t] = CeilDiv(frameCount[t], BufSize(t))
              /\ frameCount[t] = 960 => xcalls[t] = 2
              /\ frameCount[t] = 481 => xcalls[t] = 2
              /\ frameCount[t] = 959 => xcalls[t] = 2
              /\ frameCount[t] = 1 => xcalls[t] = 1

\* The spec's scenario: a spectral denoiser built at 48000 Hz has processed
\* 960 samples of silence, with 2 engine invocations.
C1_Witness ==
    \E t \in Threads :
        /\ pc[t] = "done" /\ hnd[arg[t]].kind = "emnr"
        /\ eng[arg[t]].args[8] = 48000
        /\ frameCount[t] = 960 /\ ArrayLen(t) = 960 /\ pat[t] = "silence"
        /\ xcalls[t] = 2

\* C2: at every engine invocation the scratch buffer holds exactly the
\* current chunk: real slot 2i is the caller's sample offset+i for i < chunk,
\* and both slots of every pair from chunk up to the block size are zero.
C2_ScratchHoldsChunk ==
    \A t \in Threads : pc[t] = "engine" =>
        /\ \A i \in 0..(chunk[t] - 1) :
              Scratch(t)[2 * i] = ToDouble(In0(t)[offset[t] + i])
        /\ \A i \in chunk[t]..(BufSize(t) - 1) :
              Scratch(t)[2 * i] = 0 /\ Scratch(t)[2 * i + 1] = 0

\* A short final chunk is about to be handed to the engine, in the second
\* process call on the handle, after an engine invocation of this call left
\* non-zero values in the pairs that are now padding.
C2_Witness ==
    \E t \in Threads :
        /\ pc[t] = "engine" /\ ncalls[arg[t]] = 2
        /\ offset[t] > 0 /\ 0 < chunk[t] /\ chunk[t] < BufSize(t)
        /\ chunk[t] = frameCount[t] % BufSize(t)
        /\ xcalls[t] >= 1
        /\ engOut[t][xcalls[t]][2 * chunk[t]] # 0
        /\ engOut[t][xcalls[t]][2 * chunk[t] + 1] # 0
        /\ In0(t)[offset[t]] # 0

\* C3: when process returns, every position p < frameCount holds, narrowed
\* to float by the store, real slot p mod B of the block the engine left in
\* its invocation number floor(p / B) of the call; it was stored exactly
\* once; each unpack loop stored only the positions of its own chunk, so
\* nothing of the imaginary slots or of the padded tail reached the caller.
C3_OutputIsEngineRealSlots ==
    \A t \in Threads : pc[t] = "done" =>
        /\ Len(wrLog[t]) = Len(chunks[t])
        /\ \A i \in 1..Len(wrLog[t]) :
              wrLog[t][i] = <<chunks[t][i][1], chunks[t][i][1] + chunks[t][i][2] - 1>>
        /\ \A p \in 0..(frameCount[t] - 1) :
              /\ inOut[t][p] =
                    ToFloat(engOut[t][(p \div BufSize(t)) + 1][2 * (p % BufSize(t))])
              /\ WriteCount(t, p) = 1
        /\ \A p \in frameCount[t]..(ArrayLen(t) - 1) :
              WriteCount(t, p) = 0 /\ inOut[t][p] = In0(t)[p]

\* A call with a short final chunk has returned: the engine's last block had
\* real and imaginary parts that differ, a non-zero padded tail, and a real
\* slot that is not a float; the caller's array extends past frameCount.
C3_Witness ==
    \E t \in Threads :
        /\ pc[t] = "done" /\ frameCount[t] = 481 /\ ArrayLen(t) > 481
        /\ xcalls[t] = 2
        /\ engOut[t][2][0] # engOut[t][2][1]
        /\ engOut[t][2][2] # 0
        /\ \E p \in 0..480 :
              ToDouble(inOut[t][p]) # engOut[t][(p \div 480) + 1][2 * (p % 480)]

\* C4: process splits [0, frameCount) into consecutive chunks: 0 <= offset <=
\* frameCount throughout; every chunk has 1..B samples, starts where the one
\* before it ended (the first at 0), and is B long unless it is the last,
\* which ends at frameCount and is frameCount mod B long when that is not
\* zero; when process returns the chunk sizes sum to frameCount.
C4_ChunksPartitionFrames ==
    \A t \in Threads : InCall(t) =>
        LET cs == chunks[t]
            B == BufSize(t)
            F == frameCount[t]
        IN  /\ 0 <= offset[t] /\ offset[t] <= F
            /\ \A i \in 1..Len(cs) :
                  /\ 1 <= cs[i][2] /\ cs[i][2] <= B
                  /\ cs[i][1] = (IF i = 1 THEN 0 ELSE cs[i - 1][1] + cs[i - 1][2])
                  /\ i < Len(cs) => cs[i][2] = B
                  /\ cs[i][2] # B =>
                        cs[i][1] + cs[i][2] = F /\ cs[i][2] = F % B
            /\ pc[t] \in {"test", "done"} => SumChunks(cs) = offset[t]
            /\ pc[t] = "done" =>
                  /\ SumChunks(cs) = F
                  /\ F % B # 0 => cs[Len(cs)][2] = F % B

\* A call of two whole blocks and one more sample has returned.
C4_Witness ==
    \E t \in Threads :
        /\ pc[t] = "done" /\ frameCount[t] = 961
        /\ chunks[t] = <<<<0, 480>>, <<480, 480>>, <<960, 1>>>>

Creates == {"wdsp_emnr_create", "wdsp_anr_create"}
Destroys == {"wdsp_emnr_destroy", "wdsp_anr_destroy"}
BlocksOf(s) == {b \in live : b.slot = s}

\* C5: a create that fails at any of its three allocation points returns
\* NULL and leaves the live allocations as they were before the call: it
\* freed exactly what it had allocated (nothing, the struct, or the scratch
\* buffer and the struct), each block once and while it existed, and it
\* called no engine destructor; no create or destroy ever hands an engine
\* destructor an engine that does not exist.
C5_FailedCreateLeaksNothing ==
    /\ \A i \in 1..Len(relLog) :
          relLog[i].op \in {"destroy_emnr", "destroy_anr"} => relLog[i].ok
    /\ (lastOp.op \in Creates /\ lastOp.fail # "none") =>
          LET s == lastOp.slot IN
          /\ ctx[s] = NULL
          /\ live = lastOp.before
          /\ BlocksOf(s) = {}
          /\ \A i \in 1..Len(relLog) : relLog[i].op = "free" /\ relLog[i].ok
          /\ lastOp.fail = "ctx" => relLog = << >>
          /\ lastOp.fail = "workBuf" =>
                [i \in 1..Len(relLog) |-> relLog[i].ptr] = <<Block(s, "ctx")>>
          /\ lastOp.fail = "impl" =>
                [i \in 1..Len(relLog) |-> relLog[i].ptr] =
                    <<Block(s, "workBuf"), Block(s, "ctx")>>

\* The spectral create has just failed at engine construction, after the
\* struct and the scratch buffer had been allocated.
C5_Witness ==
    /\ lastOp.op = "wdsp_emnr_create" /\ lastOp.fail = "impl"
    /\ Len(relLog) = 2
    /\ ctx[lastOp.slot] = NULL

\* C6: destroy on a Ready handle releases the engine, then the scratch
\* buffer, then the struct, each exactly once and while it existed; after
\* it no allocation made for that handle is live, however many process calls
\* the handle served.
C6_DestroyReleasesInOrder ==
    (lastOp.op \in Destroys /\ lastOp.ptr # NULL) =>
        LET s == lastOp.slot IN
        /\ relLog =
              <<[op |-> IF lastOp.op = "wdsp_emnr_destroy"
                        THEN "destroy_emnr" ELSE "destroy_anr",
                 ptr |-> Block(s, "impl"), ok |-> TRUE],
                [op |-> "free", ptr |-> Block(s, "workBuf"), ok |-> TRUE],
                [op |-> "free", ptr |-> Block(s, "ctx"), ok |-> TRUE]>>
        /\ BlocksOf(s) = {}
        /\ live = lastOp.before \ {Block(s, "impl"), Block(s, "workBuf"), Block(s, "ctx")}
        /\ ctx[s] # NULL

\* An adaptive handle has been destroyed after serving MaxCalls process calls.
C6_Witness ==
    /\ lastOp.op = "wdsp_anr_destroy"
    /\ ncalls[lastOp.slot] = MaxCalls
    /\ Len(relLog) = 3

\* C7: every step that begins or continues a process call with frameCount 0
\* leaves the handle's pointer, struct, engine, scratch buffer and live
\* blocks as they were, makes no engine invocation, loads and stores nothing
\* and leaves the caller's array as it was passed; the call goes from entry
\* straight to its return.
C7_ZeroFramesIsNoOp ==
    [][\A t \in Threads :
          (pc'[t] # "idle" /\ frameCount'[t] = 0) =>
              /\ LET s == arg'[t] IN
                    /\ ctx'[s] = ctx[s] /\ hnd'[s] = hnd[s]
                    /\ eng'[s] = eng[s] /\ wbuf'[s] = wbuf[s]
                    /\ {b \in live' : b.slot = s} = BlocksOf(s)
              /\ pc'[t] \in {"test", "done"}
              /\ xcalls'[t] = 0 /\ engOut'[t] = << >> /\ chunks'[t] = << >>
              /\ rdLog'[t] = << >> /\ wrLog'[t] = << >>
              /\ inOut'[t] = BufferAt(pat'[t], base'[t], alen'[t])]_vars

\* A process call with frameCount 0 has returned; it was the second call on
\* the handle, the first had left non-zero values in the scratch buffer, and
\* the caller's array is not empty.
C7_Witness ==
    \E t \in Threads :
        /\ pc[t] = "done" /\ frameCount[t] = 0
        /\ ncalls[arg[t]] = 2
        /\ Scratch(t)[0] # 0 /\ Scratch(t)[1] # 0
        /\ alen[t] > 0 /\ inOut[t][0] # 0

\* C8: at every engine invocation every imaginary slot 2i+1, i < B, of the
\* scratch buffer is zero.
C8_ImaginaryZeroAtEngine ==
    \A t \in Threads : pc[t] = "engine" =>
        /\ DOMAIN Scratch(t) = 0..(2 * BufSize(t) - 1)
        /\ \A i \in 0..(BufSize(t) - 1) : Scratch(t)[2 * i + 1] = 0

\* A whole block is about to be handed to the engine, in the second process
\* call on the handle, after the engine's previous invocation left non-zero
\* imaginary slots at both ends of the buffer.
C8_Witness ==
    \E t \in Threads :
        /\ pc[t] = "engine" /\ ncalls[arg[t]] = 2
        /\ chunk[t] = BufSize(t) /\ xcalls[t] >= 1
        /\ engOut[t][xcalls[t]][1] # 0
        /\ engOut[t][xcalls[t]][2 * BufSize(t) - 1] # 0

\* C9: process loads and stores the caller's array only at positions below
\* frameCount: every load range and every store range lies in
\* [0, frameCount), every position from frameCount on holds what it held at
\* entry, and the array is as long as it was at entry.
C9_TouchesOnlyFrames ==
    \A t \in Threads : InCall(t) =>
        /\ \A i \in 1..Len(rdLog[t]) :
              0 <= rdLog[t][i][1] /\ rdLog[t][i][2] < frameCount[t]
        /\ \A i \in 1..Len(wrLog[t]) :
              0 <= wrLog[t][i][1] /\ wrLog[t][i][2] < frameCount[t]
        /\ DOMAIN inOut[t] = 0..(alen[t] - 1)
        /\ \A p \in frameCount[t]..(alen[t] - 1) : inOut[t][p] = In0(t)[p]

\* A call with a short final chunk has returned; the caller's array has a
\* non-zero sample past frameCount, and the engine's last block was non-zero
\* in the padded pair that a whole-block copy would have stored there.
C9_Witness ==
    \E t \in Threads :
        /\ pc[t] = "done" /\ frameCount[t] = 481 /\ alen[t] = 482
        /\ inOut[t][481] # 0
        /\ ToFloat(engOut[t][2][2]) # inOut[t][481]
        /\ Len(wrLog[t]) = 2 /\ Len(rdLog[t]) = 2

\* C10: process terminates for every frameCount the caller passes: a call
\* that has been entered reaches its return; it returns with offset =
\* frameCount; and every loop iteration ends with offset at least 1 larger
\* than it began (and never past frameCount).
C10_ProcessTerminates ==
    /\ [](\A t \in Threads : pc[t] = "done" => offset[t] = frameCount[t])
    /\ [][\A t \in Threads :
             (pc[t] = "unpack" /\ pc'[t] # "unpack") =>
                 /\ offset'[t] >= offset[t] + 1
                 /\ offset'[t] <= frameCount[t]]_vars
    /\ \A t \in SoloThreads : (pc[t] # "idle") ~> (pc[t] = "done")

\* A call whose frameCount is not a multiple of the block size has returned.
C10_Witness ==
    \E t \in Threads :
        /\ pc[t] = "done" /\ frameCount[t] = 959 /\ offset[t] = 959
        /\ frameCount[t] % BufSize(t) # 0

\* The three states of the handle of slot s.
Uninitialized(s) == ctx[s] = NULL
IsDestroyed(s) == ctx[s] # NULL /\ ctx[s] \notin live

\* C11: each handle is Uninitialized, Ready or Destroyed.  An Uninitialized
\* handle has no struct and no live block; a step leaves it Uninitialized (a
\* failed create) or makes it Ready (a create that returned non-NULL) and
\* nothing else.  A Ready handle has its struct, engine and scratch buffer
\* live; a step leaves it Ready with the same engine pointer, the same
\* scratch pointer, the same block size and a scratch buffer of the same
\* length (process), or makes it Destroyed (destroy, with no call in
\* progress on it).  A Destroyed handle has no live block and stays Destroyed.
C11_HandleLifecycle ==
    /\ [](\A s \in Slots :
            /\ Uninitialized(s) =>
                  hnd[s] = NoStruct /\ eng[s] = NoEngine /\ BlocksOf(s) = {}
            /\ Ready(s) =>
                  /\ hnd[s].kind \in {"emnr", "anr"} /\ eng[s].kind = hnd[s].kind
                  /\ BlocksOf(s) = {ctx[s], hnd[s].impl, hnd[s].workBuf}
                  /\ hnd[s].impl # NULL /\ hnd[s].workBuf # NULL
            /\ IsDestroyed(s) => BlocksOf(s) = {} /\ hnd[s] = NoStruct
            /\ \A t \in Threads : (InCall(t) /\ arg[t] = s) => Ready(s))
    /\ [][\A s \in Slots :
            /\ Uninitialized(s) =>
                  /\ ~IsDestroyed(s)'
                  /\ Ready(s)' =>
                        /\ lastOp'.op \in Creates /\ lastOp'.slot = s
                        /\ lastOp'.fail = "none"
                  /\ (lastOp' # lastOp /\ lastOp'.op \in Creates
                        /\ lastOp'.slot = s /\ lastOp'.fail # "none") =>
                        Uninitialized(s)'
            /\ Ready(s) =>
                  /\ ~Uninitialized(s)'
                  /\ Ready(s)' =>
                        /\ ctx'[s] = ctx[s] /\ hnd'[s] = hnd[s]
                        /\ eng'[s].kind = eng[s].kind /\ eng'[s].args = eng[s].args
                        /\ DOMAIN wbuf'[s] = DOMAIN wbuf[s]
                  /\ IsDestroyed(s)' =>
                        /\ lastOp'.op \in Destroys /\ lastOp'.slot = s
                        /\ \A t \in Threads : ~(InCall(t) /\ arg[t] = s)
            /\ IsDestroyed(s) => IsDestroyed(s)']_vars

\* A spectral handle was created, served one process call and was destroyed.
C11_Witness ==
    \E s \in Slots :
        /\ IsDestroyed(s) /\ lastOp.op = "wdsp_emnr_destroy" /\ lastOp.slot = s
        /\ ncalls[s] = 1

Processes == {"wdsp_emnr_process", "wdsp_anr_process"}

\* C12: process allocates nothing and releases nothing: from the entry of a
\* process call until the next create or destroy the live blocks are those
\* that were live when it was entered and no release call has been made,
\* and no step of a call changes the live blocks, the handle pointer or the
\* struct.  The scratch buffer of a Ready handle is the block create
\* allocated (it did not exist before that create); it is the buffer the
\* engine was constructed to read and to write, it has 2 * bufSize slots,
\* and it is the only buffer a step of a call on the handle writes.
C12_ProcessAllocatesNothing ==
    /\ [](lastOp.op \in Processes =>
            /\ relLog = << >>
            /\ live = lastOp.before
            /\ lastOp.ptr = ctx[lastOp.slot])
    /\ [](\A s \in Slots : Ready(s) =>
            LET w == hnd[s].workBuf IN
            /\ w \in live
            /\ eng[hnd[s].impl.slot].args[4] = w
            /\ eng[hnd[s].impl.slot].args[5] = w
            /\ DOMAIN wbuf[w.slot] = 0..(2 * hnd[s].bufSize - 1)
            /\ (lastOp.op \in Creates /\ lastOp.slot = s) => w \notin lastOp.before)
    /\ [][\A t \in Threads : pc'[t] # pc[t] =>
             LET s == IF pc[t] = "idle" THEN arg'[t] ELSE arg[t] IN
             /\ live' = live /\ ctx' = ctx /\ hnd' = hnd
             /\ relLog' = << >>
             /\ eng'[s].args = eng[s].args
             /\ \A u \in Slots :
                   wbuf'[u] # wbuf[u] =>
                       /\ u = hnd[s].workBuf.slot
                       /\ pc[t] \in {"pack", "engine"}]_vars

\* The second process call on an adaptive handle has returned after three
\* chunks; the handle's three blocks are the live ones.
C12_Witness ==
    \E t \in Threads :
        /\ pc[t] = "done" /\ lastOp.op = "wdsp_anr_process"
        /\ ncalls[arg[t]] = 2 /\ xcalls[t] = 3
        /\ Cardinality(live) = 3 /\ hnd[arg[t]].workBuf \in live

ThreadOf(s) == CHOOSE t \in Threads : SlotOf(t) = s

\* What one process call does to the engine state st, the scratch buffer wb
\* and the caller's array buf when nothing else runs: the loop of process
\* from offset off on.
RECURSIVE AloneLoop(_, _, _, _, _, _)
AloneLoop(st, wb, buf, off, fc, B) ==
    IF ~LoopCond(off, fc) THEN [st |-> st, wb |-> wb, buf |-> buf]
    ELSE LET c == ChunkSize(fc, off, B)
             packed == ZeroPad(PackChunk(wb, buf, off, c), c, B)
             out == EngineBlock(EngineOutcome(variety, st), packed)
         IN  AloneLoop(EngineNext(st), out, Unpack(buf, out, off, c),
                       Advance(off, c), fc, B)

\* The engine state, the scratch buffer and the caller's array after the
\* first n planned calls on a handle of block size B that is used alone.
RECURSIVE AloneRun(_, _, _)
AloneRun(calls, n, B) ==
    IF n = 0 THEN [st |-> 0, wb |-> ZeroArray(2 * B), buf |-> NoArray]
    ELSE LET before == AloneRun(calls, n - 1, B)
             c == calls[n]
         IN  AloneLoop(before.st, before.wb,
                       BufferAt(c.pt, c.base, ArrayFor(c.fc, c.pt)), 0, c.fc, B)

\* The state of slot s that belongs to its handle.
HandleState(s) == <<ctx[s], hnd[s], wbuf[s], eng[s], BlocksOf(s), ncalls[s]>>

\* The state of thread t's process call.
CallState(t) ==
    <<pc[t], arg[t], inOut[t], frameCount[t], offset[t], chunk[t], pat[t], base[t],
      alen[t], xcalls[t], engOut[t], chunks[t], wrLog[t], rdLog[t]>>

\* C13: two handles, of the same or of different variants, used by two
\* callers under every interleaving of their creates, process steps and
\* destroys.  Two Ready handles have no block in common, each engine reads
\* and writes its own handle's scratch buffer, and ch is never written.  A
\* step changes the state of at most the one handle it is an operation on
\* and the call of at most the one thread that takes it.  Between calls and
\* at the return of a call, the handle's block size, engine state and scratch
\* buffer, and at the return the caller's array, are what the planned calls
\* made so far give on a handle used alone.
C13_DistinctHandlesIndependent ==
    /\ [](ch = [i \in 0..(MAX_CHANNELS - 1) |-> [csDSP |-> [unused |-> 0]]])
    /\ [](\A s \in Slots : Ready(s) =>
            /\ \A u \in Slots \ {s} : Ready(u) =>
                  {ctx[s], hnd[s].impl, hnd[s].workBuf} \cap
                  {ctx[u], hnd[u].impl, hnd[u].workBuf} = {}
            /\ hnd[s].workBuf.slot = s /\ hnd[s].impl.slot = s
            /\ eng[s].args[4] = hnd[s].workBuf /\ eng[s].args[5] = hnd[s].workBuf)
    /\ [](\A s \in Slots :
            LET t == ThreadOf(s) IN
            (Ready(s) /\ pc[t] \in {"idle", "done"}) =>
                LET alone == AloneRun(plan[s].calls, ncalls[s], hnd[s].bufSize) IN
                /\ hnd[s].bufSize = 480
                /\ eng[s].st = alone.st
                /\ wbuf[s] = alone.wb
                /\ pc[t] = "done" => inOut[t] = alone.buf)
    /\ [][/\ \A s \in Slots : HandleState(s)' # HandleState(s) =>
                \/ /\ lastOp'.slot = s /\ lastOp' # lastOp
                   /\ \A u \in Slots \ {s} : HandleState(u)' = HandleState(u)
                   /\ \A t \in Threads : SlotOf(t) # s => CallState(t)' = CallState(t)
                \/ \E t \in Threads :
                      /\ pc'[t] # pc[t]
                      /\ s = (IF pc[t] = "idle" THEN arg'[t] ELSE arg[t])
                      /\ \A u \in Slots \ {s} : HandleState(u)' = HandleState(u)
          /\ \A t \in Threads : CallState(t)' # CallState(t) =>
                /\ pc'[t] # pc[t]
                /\ \A u \in Threads \ {t} : CallState(u)' = CallState(u)]_vars

\* Both handles are inside process at once, one spectral on silence and one
\* adaptive on non-zero samples in its second call, each with an engine
\* invocation behind it that left non-zero values in its scratch buffer.
C13_Witness ==
    /\ hnd["s1"].kind = "emnr" /\ hnd["s2"].kind = "anr"
    /\ pc["t1"] = "unpack" /\ pc["t2"] = "unpack"
    /\ xcalls["t1"] = 2 /\ ncalls["s2"] = 2
    /\ wbuf["s1"] # wbuf["s2"]
    /\ wbuf["s1"][1] # 0 /\ wbuf["s2"][1] # 0

\* The scratch buffer as the pack and zero-pad loops of thread u leave it.
PackedBy(u) ==
    ZeroPad(PackChunk(ZeroArray(2 * BufSize(u)), inOut[u], offset[u], chunk[u]),
            chunk[u], BufSize(u))

\* C14: two threads inside process on one handle with nothing serialising
\* them, their loops interleaved loop by loop (the interleavings of single
\* loads and stores within the loops are further outcomes of the same race,
\* not modelled).  There is one scratch buffer, and it holds what the thread that
\* wrote it last put there: after a pack loop, that thread's chunk; after an
\* engine invocation, that invocation's output.  An engine invocation of a
\* thread that follows the other thread's pack loop processes the other
\* thread's chunk, and a write-back stores whatever the scratch buffer holds:
\* following the other thread's pack loop, the other thread's samples and
\* zero padding.
C14_UnserialisedCallsShareScratch ==
    /\ [](\A s \in Slots :
            LET u == lastWrite[s].by IN
            /\ lastWrite[s].what = "pack" =>
                  pc[u] = "engine" /\ arg[u] = s /\ wbuf[s] = PackedBy(u)
            /\ (lastWrite[s].what = "engine" /\ pc[u] = "unpack") =>
                  arg[u] = s /\ wbuf[s] = engOut[u][xcalls[u]])
    /\ [][\A t \in Threads :
            LET s == arg[t]
                u == lastWrite[s].by
            IN
            /\ (pc[t] = "engine" /\ pc'[t] = "unpack" /\ lastWrite[s].what = "pack") =>
                  engOut'[t][xcalls'[t]] =
                      EngineBlock(EngineOutcome(variety, eng[s].st), PackedBy(u))
            /\ (pc[t] = "unpack" /\ pc'[t] = "test") =>
                  /\ \A i \in 0..(chunk[t] - 1) :
                        inOut'[t][offset[t] + i] = ToFloat(wbuf[s][2 * i])
                  /\ (lastWrite[s].what = "pack" /\ u # t) =>
                        \A i \in 0..(chunk[t] - 1) :
                            inOut'[t][offset[t] + i] =
                                IF i < chunk[u]
                                THEN ToFloat(ToDouble(inOut[u][offset[u] + i]))
                                ELSE 0]_vars

\* A call on silence has returned with a sample in the caller's array that
\* no engine output for a block of silence gives: it was taken from scratch
\* contents the other thread's call had packed.
C14_Witness ==
    \E t \in Threads :
        /\ pc[t] = "done" /\ pat[t] = "silence"
        /\ \E u \in Threads \ {t} : InCall(u) /\ arg[u] = arg[t]
        /\ \E p \in 0..(frameCount[t] - 1) :
              \A o \in 1..NumOutcomes :
                  inOut[t][p] #
                      ToFloat(EngineBlock(o, ZeroArray(2 * BufSize(t)))[2 * (p % BufSize(t))])

\* C15: what wdsp_anr_create leaves behind is what it would have left for any
\* other sampleRate (0 included) with the same allocation outcome: the same
\* success or failure, the same release calls and live blocks, the same
\* struct (block size, scratch pointer), the same scratch buffer and the same
\* tuple given to create_anr.  wdsp_emnr_create hands sampleRate to
\* create_emnr as its rate argument, unchanged.
C15_AnrCreateIgnoresSampleRate ==
    LET s == lastOp.slot IN
    /\ lastOp.op = "wdsp_anr_create" =>
          \A rate \in SampleRates("anr") \cup SampleRates("emnr") :
              LET r == wdsp_anr_create(s, rate, lastOp.fail) IN
              /\ ctx[s] = r.ret
              /\ hnd[s] = r.hnd
              /\ live = Released(lastOp.before \cup r.allocs, r.rels)
              /\ relLog = Logged(lastOp.before \cup r.allocs, r.rels)
              /\ r.ret # NULL =>
                    /\ hnd[s].bufSize = r.hnd.bufSize
                    /\ wbuf[hnd[s].workBuf.slot] = r.wbuf
                    /\ eng[hnd[s].impl.slot].args = r.eng.args
    /\ (lastOp.op = "wdsp_emnr_create" /\ ctx[s] # NULL) =>
          eng[hnd[s].impl.slot].args[8] = lastOp.rate

\* wdsp_anr_create(0) has just succeeded.
C15_Witness ==
    /\ lastOp.op = "wdsp_anr_create" /\ lastOp.rate = 0
    /\ Ready(lastOp.slot)
    /\ eng[hnd[lastOp.slot].impl.slot].args[6] = 2048

\* Thread t and thread u are at the same point of the same call of the same
\* sequence of calls, each on its own handle.
SamePoint(t, u) ==
    /\ plan[SlotOf(t)] = plan[SlotOf(u)]
    /\ Ready(SlotOf(t)) /\ Ready(SlotOf(u))
    /\ ncalls[SlotOf(t)] = ncalls[SlotOf(u)]
    /\ pc[t] = pc[u] /\ offset[t] = offset[u]

\* C16: two handles of one variant created with the same sampleRate and given
\* the same process calls (same frame counts, same samples).  With an engine
\* whose output and next state are a function of its state and input block,
\* at every point of the sequence the two callers' arrays are equal, the
\* engines have been invoked equally often on equal input blocks with equal
\* results, and the two scratch buffers and engine states are equal.
C16_IdenticalInstancesAgree ==
    \A t, u \in Threads :
        (t # u /\ SamePoint(t, u)) =>
            /\ inOut[t] = inOut[u]
            /\ frameCount[t] = frameCount[u] /\ chunk[t] = chunk[u]
            /\ xcalls[t] = xcalls[u] /\ chunks[t] = chunks[u]
            /\ rdLog[t] = rdLog[u] /\ wrLog[t] = wrLog[u]
            /\ engOut[t] = engOut[u]
            /\ wbuf[hnd[SlotOf(t)].workBuf.slot] = wbuf[hnd[SlotOf(u)].workBuf.slot]
            /\ eng[hnd[SlotOf(t)].impl.slot].st = eng[hnd[SlotOf(u)].impl.slot].st
            /\ hnd[SlotOf(t)].bufSize = hnd[SlotOf(u)].bufSize

\* Both callers have finished their second call, each after one or more
\* engine invocations in it, and hold the same processed samples, which are
\* not the samples they passed in.
C16_Witness ==
    /\ SamePoint("t1", "t2")
    /\ pc["t1"] = "done" /\ ncalls["s1"] = 2
    /\ xcalls["t1"] >= 1
    /\ inOut["t1"] = inOut["t2"]
    /\ inOut["t1"] # In0("t1")

\* C17: destroy on a null handle, of either variant, calls neither engine
\* destructor, makes no release call, and leaves every handle, block, buffer,
\* engine and call in progress as it was.
C17_DestroyNullIsNoOp ==
    /\ []((lastOp.op \in Destroys /\ lastOp.ptr = NULL) =>
            /\ relLog = << >>
            /\ live = lastOp.before
            /\ ctx[lastOp.slot] = NULL /\ hnd[lastOp.slot] = NoStruct)
    /\ [][(lastOp' # lastOp /\ lastOp'.op \in Destroys /\ lastOp'.ptr = NULL) =>
            UNCHANGED <<envVars, heapVars, ncalls, callVars, ghostVars>>]_vars

\* The adaptive destroy has been called on a null handle while the other
\* caller's handle was Ready and in the middle of a process call.
C17_Witness ==
    /\ lastOp.op = "wdsp_anr_destroy" /\ lastOp.ptr = NULL
    /\ \E t \in Threads :
          /\ pc[t] = "engine" /\ SlotOf(t) # lastOp.slot
          /\ Ready(SlotOf(t))
          /\ lastOp.before = BlocksOf(SlotOf(t))

\* The indices r[1]..r[2] (none when r[2] < r[1]) are indices of array a.
Inside(r, a) == r[2] < r[1] \/ ({r[1], r[2]} \subseteq DOMAIN a)

\* C18: a Ready handle of either variant has block size 480, which is also
\* the size its engine constructor was given; for the spectral variant it is
\* the window length 1920 divided by the overlap 4, both as given to the
\* constructor.  Its scratch buffer has exactly 2 * bufSize slots, so slots
\* 2*i and 2*i + 1 exist for every i < bufSize, and the slots the pack,
\* zero-pad and unpack loops of a call in progress use are among them.
C18_BlockSizeAndScratchLength ==
    \A s \in Slots :
        Ready(s) =>
            LET h == hnd[s]
                a == eng[h.impl.slot].args
                w == wbuf[h.workBuf.slot]
            IN
            /\ h.bufSize = 480
            /\ a[3] = h.bufSize
            /\ h.kind = "emnr" =>
                  /\ h.bufSize = fsize \div ovrlp
                  /\ fsize = 1920 /\ ovrlp = 4
                  /\ a[6] = 1920 /\ a[7] = 4
            /\ DOMAIN w = 0..(2 * h.bufSize - 1)
            /\ \A i \in 0..(h.bufSize - 1) : {2 * i, 2 * i + 1} \subseteq DOMAIN w
            /\ \A t \in Threads :
                  (arg[t] = s /\ pc[t] \in {"pack", "engine", "unpack"}) =>
                      /\ 1 <= chunk[t] /\ chunk[t] <= h.bufSize
                      /\ Inside(PackSlots(chunk[t]), w)
                      /\ Inside(PadSlots(chunk[t], h.bufSize), w)
                      /\ Inside(UnpackSlots(chunk[t]), w)

\* A spectral handle on its last call, about to unpack a whole block: the
\* loops have used every slot up to the last one, 2 * bufSize - 1.
C18_Witness ==
    \E t \in Threads :
        /\ pc[t] = "unpack" /\ Ready(arg[t])
        /\ hnd[arg[t]].kind = "emnr" /\ ncalls[arg[t]] = MaxCalls
        /\ chunk[t] = hnd[arg[t]].bufSize
        /\ PackSlots(chunk[t])[2] = 959

\* The caller of slot s1 passes a stream in one call and the caller of slot
\* s2 passes the same stream in two, to handles created alike.
IsSplit ==
    LET a == plan["s1"]
        b == plan["s2"]
    IN  /\ a.kind = b.kind /\ a.rate = b.rate
        /\ Len(a.calls) = 1 /\ Len(b.calls) = 2
        /\ a.calls = Whole(a.calls[1].pt, b.calls[1].fc, b.calls[2].fc)
        /\ b.calls = Split(a.calls[1].pt, b.calls[1].fc, b.calls[2].fc)

\* Where in the loop thread t is: in one of the three steps of an iteration,
\* or between iterations (before the loop test or after the last one).
Phase(t) == IF pc[t] \in {"test", "done"} THEN "between" ELSE pc[t]

\* C19: process(buf, F1) followed by process(buf + F1, F2), F1 a multiple of
\* the block size, against process(buf, F1 + F2) on a handle created alike.
\* Whenever the two are at the same sample of the stream in the same phase of
\* the loop, they have the same chunk, scratch buffer and engine state, the
\* engine has been invoked equally often on the stream and has given the same
\* blocks, and the samples of the split call's array equal those at the same
\* stream positions of the whole call's array.  A scratch buffer about to be
\* given to the engine holds the current chunk from slot 0 on and zeros,
\* nothing of an earlier call.
C19_SplitAtBlockBoundary ==
    LET t == "t1"
        u == "t2"
        B == hnd["s1"].bufSize
    IN
    (/\ IsSplit /\ Ready("s1") /\ Ready("s2")
     /\ InCall(t) /\ InCall(u)
     /\ plan["s2"].calls[1].fc % B = 0
     /\ Phase(t) = Phase(u)
     /\ offset[t] = base[u] + offset[u]) =>
        /\ Phase(t) # "between" => chunk[t] = chunk[u]
        /\ wbuf[hnd["s1"].workBuf.slot] = wbuf[hnd["s2"].workBuf.slot]
        /\ eng[hnd["s1"].impl.slot].st = eng[hnd["s2"].impl.slot].st
        /\ xcalls[t] = (base[u] \div B) + xcalls[u]
        /\ engOut[u] = SubSeq(engOut[t], (base[u] \div B) + 1, xcalls[t])
        /\ \A p \in 0..(frameCount[u] - 1) : inOut[u][p] = inOut[t][base[u] + p]
        /\ pc[t] = "engine" =>
              /\ wbuf[hnd["s1"].workBuf.slot] = PackedBy(t)
              /\ wbuf[hnd["s2"].workBuf.slot] = PackedBy(u)
              /\ PackSlots(chunk[u])[1] = 0

\* The whole call and the second call of the split have both finished; the
\* second call made an engine invocation of its own, and its array holds the
\* samples the whole call wrote from position F1 on, which the engine changed.
C19_Witness ==
    /\ IsSplit /\ Ready("s1") /\ Ready("s2")
    /\ pc["t1"] = "done" /\ pc["t2"] = "done" /\ ncalls["s2"] = 2
    /\ base["t2"] = hnd["s2"].bufSize
    /\ xcalls["t2"] = 1 /\ xcalls["t1"] = 2
    /\ inOut["t2"][0] = inOut["t1"][base["t2"]]
    /\ inOut["t2"][0] # In0("t2")[0]

\* C20: every step that begins or continues a process call with a negative
\* frameCount does what it does for frameCount 0: the loop test fails at
\* offset 0 as it does for 0, the call goes from entry straight to its
\* return, the engine is not invoked, nothing is loaded or stored, and the
\* caller's array, the scratch buffer, the struct, the engine and the live
\* blocks are as they were.
C20_NegativeFramesLikeZero ==
    [][\A t \in Threads :
          (pc'[t] # "idle" /\ frameCount'[t] < 0) =>
              /\ LoopCond(offset'[t], frameCount'[t]) = LoopCond(offset'[t], 0)
              /\ offset'[t] = 0 /\ chunk'[t] = 0
              /\ pc'[t] = (IF pc[t] = "idle" THEN "test" ELSE "done")
              /\ xcalls'[t] = 0 /\ engOut'[t] = << >> /\ chunks'[t] = << >>
              /\ rdLog'[t] = << >> /\ wrLog'[t] = << >>
              /\ inOut'[t] = BufferAt(pat'[t], base'[t], alen'[t])
              /\ LET s == arg'[t] IN
                    /\ ctx'[s] = ctx[s] /\ hnd'[s] = hnd[s]
                    /\ eng'[hnd[s].impl.slot] = eng[hnd[s].impl.slot]
                    /\ wbuf'[hnd[s].workBuf.slot] = wbuf[hnd[s].workBuf.slot]
                    /\ live' = live /\ relLog' = << >>]_vars

\* A process call with frameCount -480 has returned; it was the second call
\* on the handle, the first had left non-zero values in the scratch buffer,
\* and the caller's array is not empty.
C20_Witness ==
    \E t \in Threads :
        /\ pc[t] = "done" /\ frameCount[t] = -480
        /\ ncalls[arg[t]] = 2
        /\ alen[t] > 0 /\ inOut[t] = In0(t)
        /\ \E j \in DOMAIN Scratch(t) : Scratch(t)[j] # 0

====
